---- MODULE Spec2Model ----
(***************************************************************************)
(* Model of src/evaluate.cpp: the network loader (NNUE::load_networks,     *)
(* NNUE::verify) and the evaluator (Eval::simple_eval, Eval::evaluate).    *)
(* Two specifications share the module: Spec drives the loader, EvalSpec   *)
(* applies the pure evaluation functions to inputs drawn from bounded sets.*)
(***************************************************************************)
EXTENDS Integers, Sequences, FiniteSets, TLC

VARIABLES
    evalFile,        \* the EvalFile record handed through load_networks / verify
    options,         \* the OptionsMap: option name -> configured string
    prior,           \* evalFile as it was when the last load_networks call began
    requested,       \* user_eval_file resolved by the last load_networks call
    attempts,        \* parse attempts made by the last load_networks call, in order
    lastParsed,      \* file name -> description of its latest successful parse
    prevOp, lastOp,  \* the two most recent operations
    verifyOutcome,   \* "none" | "ok" | "fatal" (exit(EXIT_FAILURE) taken)
    pos,             \* the Position read by simple_eval / evaluate
    optimism, alpha, beta,   \* arguments of evaluate
    epc,             \* "start" | "simple" | "evaluated"
    simple,          \* results of simple_eval for both colours
    nnueRaw, nnueComplexity, \* what NNUE::evaluate returned
    psqtOnly,        \* the hint passed to NNUE::evaluate
    value            \* the Value returned by evaluate

netVars  == <<evalFile, options, prior, requested, attempts, lastParsed,
              prevOp, lastOp, verifyOutcome>>
evalVars == <<pos, optimism, alpha, beta, epc, simple, nnueRaw,
              nnueComplexity, psqtOnly, value>>
vars     == <<netVars, evalVars>>

----------------------------------------------------------------------------
(* Bounds of the model *)

\* number of distinct descriptions a parse may return
NumDescr == 2
\* largest per-colour count of pawns, advisors and bishops
MaxCount == 1

----------------------------------------------------------------------------
(* Network loader *)

\* initial value of the "current file" name (not-loaded sentinel)
currentEvalFileName == "None"

EvalFileDefaultName == "pikafish.nnue"

OptionName == "EvalFile"

\* values the EvalFile option may be set to; "" means "use the default"
OptionValues == {"", "None", "custom.net"}

FileNames == (OptionValues \ {""}) \cup {EvalFileDefaultName}

RootDirs == {"", "engine/"}

Descriptions == 1..NumDescr

\* std::optional<std::string>: <<>> is nullopt, <<d>> holds d
OptDescr == {<<>>} \cup {<<d>> : d \in Descriptions}

has_value(o) == Len(o) > 0

\* options[evalFile.optionName], replaced by the default name when empty
user_eval_file(opts, ef) ==
    IF opts[ef.optionName] = "" THEN ef.defaultName ELSE opts[ef.optionName]

\* The parse attempts on one path: load_eval on the zipped stream, then, when
\* that gave no description, load_eval on the raw stream. zipped and raw give
\* the outcome of load_eval for each path. Returns the description and the log.
ParseAttempts(log, i, path, zipped, raw) ==
    LET d1   == zipped[path]
        log1 == Append(log, [dir |-> i, path |-> path, kind |-> "zip", result |-> d1])
    IN  IF ~has_value(d1)
        THEN [description |-> raw[path],
              log |-> Append(log1, [dir |-> i, path |-> path, kind |-> "raw",
                                    result |-> raw[path]])]
        ELSE [description |-> d1, log |-> log1]

\* Update with the name assigned outside the has_value test
Update_NameAlways(ef, name, description) ==
    IF has_value(description)
    THEN [ef EXCEPT !.current = name, !.netDescription = description[1]]
    ELSE [ef EXCEPT !.current = name]

\* Update with the assignment of netDescription left out
Update_NameOnly(ef, name, description) ==
    IF has_value(description) THEN [ef EXCEPT !.current = name] ELSE ef

\* if (description.has_value()) { evalFile.current = ...; evalFile.netDescription = ... }
Update(ef, name, description) ==
    IF has_value(description)
    THEN [ef EXCEPT !.current = name, !.netDescription = description[1]]
    ELSE ef

\* LoadDir without the test of evalFile.current against the file name
LoadDir_NoGuard(st, dirs, i, name, zipped, raw) ==
    LET r == ParseAttempts(st.log, i, dirs[i] \o name, zipped, raw)
    IN  [ef |-> Update(st.ef, name, r.description), log |-> r.log]

\* One iteration of the loop over dirs, on dirs[i]. st = [ef, log].
LoadDir(st, dirs, i, name, zipped, raw) ==
    IF st.ef.current /= name
    THEN LET r == ParseAttempts(st.log, i, dirs[i] \o name, zipped, raw)
         IN  [ef |-> Update(st.ef, name, r.description), log |-> r.log]
    ELSE st

\* NNUE::load_networks: returns the new EvalFile and the log of parse attempts
load_networks(rootDirectory, opts, ef, zipped, raw) ==
    LET name == user_eval_file(opts, ef)
        dirs == <<"", rootDirectory>>
        s0   == [ef |-> ef, log |-> <<>>]
        s1   == LoadDir(s0, dirs, 1, name, zipped, raw)
        s2   == LoadDir(s1, dirs, 2, name, zipped, raw)
    IN  s2

\* verify without the fallback to the default name
verify_NoDefault(opts, ef) == ef.current /= opts[ef.optionName]

\* NNUE::verify: TRUE when exit(EXIT_FAILURE) is reached
verify(opts, ef) == ef.current /= user_eval_file(opts, ef)

Running == verifyOutcome /= "fatal"

\* the description of a successful attempt in a log, <<>> when there is none
Loaded(log) ==
    IF \E i \in 1..Len(log) : has_value(log[i].result)
    THEN (log[CHOOSE i \in 1..Len(log) : has_value(log[i].result)]).result
    ELSE <<>>

\* UCI "setoption name EvalFile value ..."
SetOption ==
    /\ Running
    /\ \E v \in OptionValues :
          /\ v /= options[OptionName]
          /\ options' = [options EXCEPT ![OptionName] = v]
    /\ prevOp' = lastOp
    /\ lastOp' = "setoption"
    /\ UNCHANGED <<evalFile, prior, requested, attempts, lastParsed, verifyOutcome>>
    /\ UNCHANGED evalVars

LoadNetworks ==
    /\ Running
    /\ \E root \in RootDirs :
        LET name  == user_eval_file(options, evalFile)
            paths == {"" \o name, root \o name}
        IN  \E zipped \in [paths -> OptDescr], raw \in [paths -> OptDescr] :
               LET r == load_networks(root, options, evalFile, zipped, raw)
               IN  /\ evalFile' = r.ef
                   /\ attempts' = r.log
                   /\ requested' = name
                   /\ lastParsed' = IF has_value(Loaded(r.log))
                                    THEN [lastParsed EXCEPT ![name] = Loaded(r.log)]
                                    ELSE lastParsed
    /\ prior' = evalFile
    /\ prevOp' = lastOp
    /\ lastOp' = "load"
    /\ verifyOutcome' = "none"
    /\ UNCHANGED options
    /\ UNCHANGED evalVars

Verify ==
    /\ Running
    /\ verifyOutcome' = IF verify(options, evalFile) THEN "fatal" ELSE "ok"
    /\ prevOp' = lastOp
    /\ lastOp' = "verify"
    /\ UNCHANGED <<evalFile, options, prior, requested, attempts, lastParsed>>
    /\ UNCHANGED evalVars

----------------------------------------------------------------------------
(* Evaluator *)

WHITE == "WHITE"
BLACK == "BLACK"
Color == {WHITE, BLACK}

\* operator~ on Color
Flip(c) == IF c = WHITE THEN BLACK ELSE WHITE

PawnValue == 144
AdvisorValue == 219
BishopValue == 187

VALUE_MATE == 32000
MAX_PLY == 246
VALUE_MATE_IN_MAX_PLY == VALUE_MATE - MAX_PLY
VALUE_MATED_IN_MAX_PLY == -VALUE_MATE_IN_MAX_PLY

Abs(x) == IF x < 0 THEN -x ELSE x

\* C++ integer division: the quotient is truncated toward zero
Div(a, b) ==
    IF (a >= 0) = (b > 0) THEN Abs(a) \div Abs(b) ELSE -(Abs(a) \div Abs(b))

\* std::clamp(v, lo, hi)
clamp(v, lo, hi) == IF v < lo THEN lo ELSE IF hi < v THEN hi ELSE v

\* pos.major_material(): the major material of both sides
major_material(p) == p.major[WHITE] + p.major[BLACK]

\* simple_eval with the major material added instead of subtracted
simple_eval_MajorSum(p, c) ==
      PawnValue * (p.pawn[c] - p.pawn[Flip(c)])
    + AdvisorValue * (p.advisor[c] - p.advisor[Flip(c)])
    + BishopValue * (p.bishop[c] - p.bishop[Flip(c)])
    + (p.major[c] + p.major[Flip(c)])

simple_eval(p, c) ==
      PawnValue * (p.pawn[c] - p.pawn[Flip(c)])
    + AdvisorValue * (p.advisor[c] - p.advisor[Flip(c)])
    + BishopValue * (p.bishop[c] - p.bishop[Flip(c)])
    + (p.major[c] - p.major[Flip(c)])

\* PsqtOnly with the margins included
PsqtOnly_Inclusive(a, b, simpleEval) == a - 2500 >= simpleEval \/ simpleEval >= b + 2500

\* bool psqtOnly = alpha - 2500 > simpleEval || simpleEval > beta + 2500
PsqtOnly(a, b, simpleEval) == a - 2500 > simpleEval \/ simpleEval > b + 2500

\* optimism += optimism * (nnueComplexity + std::abs(simpleEval - nnue)) / 781
BlendOptimism(opt, complexity, simpleEval, nnue) ==
    opt + Div(opt * (complexity + Abs(simpleEval - nnue)), 781)

\* ShrinkNnue with a digit of the divisor dropped
ShrinkNnue_3008(nnue, complexity, simpleEval) ==
    nnue - Div(nnue * (complexity + Abs(simpleEval - nnue)), 3008)

\* nnue -= nnue * (nnueComplexity + std::abs(simpleEval - nnue)) / 30087
ShrinkNnue(nnue, complexity, simpleEval) ==
    nnue - Div(nnue * (complexity + Abs(simpleEval - nnue)), 30087)

\* v = (nnue * (568 + mm) + optimism * (138 + mm)) / 1434
Blend(nnue, opt, mm) == Div(nnue * (568 + mm) + opt * (138 + mm), 1434)

\* Damp with the threshold off by one
Damp_294(v, shuffling) == Div(v * (294 - shuffling), 194)

\* v = v * (293 - shuffling) / 194
Damp(v, shuffling) == Div(v * (293 - shuffling), 194)

\* ClampValue onto the closed interval between the mate bounds
ClampValue_Closed(v) == clamp(v, VALUE_MATED_IN_MAX_PLY, VALUE_MATE_IN_MAX_PLY)

\* v = std::clamp(v, VALUE_MATED_IN_MAX_PLY + 1, VALUE_MATE_IN_MAX_PLY - 1)
ClampValue(v) == clamp(v, VALUE_MATED_IN_MAX_PLY + 1, VALUE_MATE_IN_MAX_PLY - 1)

\* Eval::evaluate up to the damping, after NNUE::evaluate has returned nnue
\* and complexity
Damped(p, opt, nnue, complexity) ==
    LET simpleEval == simple_eval(p, p.stm)
        opt1       == BlendOptimism(opt, complexity, simpleEval, nnue)
        nnue1      == ShrinkNnue(nnue, complexity, simpleEval)
        mm         == Div(major_material(p), 41)
        v0         == Blend(nnue1, opt1, mm)
    IN  Damp(v0, p.rule60)

\* Eval::evaluate: the value returned
evaluate(p, opt, nnue, complexity) == ClampValue(Damped(p, opt, nnue, complexity))

\* inputs the evaluator is applied to
Counts == [Color -> 0..MaxCount]
MajorValues == {0, 2610}
ShuffleValues == {0, 293}
OptimismValues == {-3000, 0, 3000}
Windows == {<<-30000, 30000>>, <<-110, 110>>}
NnueValues == {-20000, -1, 0, 1, 20000}
ComplexityValues == {0, 20000}

Positions ==
    [pawn : Counts, advisor : Counts, bishop : Counts,
     major : [Color -> MajorValues], stm : Color,
     rule60 : ShuffleValues, checkers : BOOLEAN]

\* a call of simple_eval for each colour
SimpleEval ==
    /\ epc = "start"
    /\ simple' = [c \in Color |-> simple_eval(pos, c)]
    /\ epc' = "simple"
    /\ UNCHANGED <<pos, optimism, alpha, beta, nnueRaw, nnueComplexity, psqtOnly, value>>
    /\ UNCHANGED netVars

\* a call of evaluate; assert(!pos.checkers()) is its precondition
Evaluate ==
    /\ epc = "start"
    /\ ~pos.checkers
    /\ psqtOnly' = PsqtOnly(alpha, beta, simple_eval(pos, pos.stm))
    /\ \E n \in NnueValues, k \in ComplexityValues :
          /\ nnueRaw' = n
          /\ nnueComplexity' = k
          /\ value' = evaluate(pos, optimism, n, k)
    /\ epc' = "evaluated"
    /\ UNCHANGED <<pos, optimism, alpha, beta, simple>>
    /\ UNCHANGED netVars

EvalIdle ==
    /\ epc = "start"
    /\ simple = [c \in Color |-> 0]
    /\ nnueRaw = 0 /\ nnueComplexity = 0 /\ psqtOnly = FALSE /\ value = 0

EvalInputs ==
    /\ pos \in Positions
    /\ optimism \in OptimismValues
    /\ \E w \in Windows : alpha = w[1] /\ beta = w[2]

NoPosition ==
    [pawn |-> [c \in Color |-> 0], advisor |-> [c \in Color |-> 0],
     bishop |-> [c \in Color |-> 0], major |-> [c \in Color |-> 0],
     stm |-> WHITE, rule60 |-> 0, checkers |-> FALSE]

----------

NetInit ==
    /\ evalFile = [optionName     |-> OptionName,
                   defaultName    |-> EvalFileDefaultName,
                   current        |-> currentEvalFileName,
                   netDescription |-> 0]
    /\ options \in [{OptionName} -> OptionValues]
    /\ prior = evalFile
    /\ requested = ""
    /\ attempts = <<>>
    /\ lastParsed = [n \in FileNames |-> <<>>]
    /\ prevOp = "init" /\ lastOp = "init"
    /\ verifyOutcome = "none"

NetIdle == NetInit /\ options[OptionName] = ""

Init ==
    /\ NetInit
    /\ pos = NoPosition /\ optimism = 0 /\ alpha = 0 /\ beta = 0
    /\ EvalIdle

Next == SetOption \/ LoadNetworks \/ Verify

Spec == Init /\ [][Next]_vars

EvalInit == NetIdle /\ EvalInputs /\ EvalIdle

EvalNext == SimpleEval \/ Evaluate

EvalSpec == EvalInit /\ [][EvalNext]_vars

----------------------------------------------------------------------------
(* Properties of the network loader, checked under Spec *)

AfterLoad == lastOp = "load"

VerifyAfterLoad == lastOp = "verify" /\ prevOp = "load"

NoneParsed(log) == \A i \in 1..Len(log) : ~has_value(log[i].result)

\* C2: verify right after load_networks, with the same options, does not
\* take the fatal path when the requested file was successfully loaded (or is
\* the current one), and takes it when evalFile.current differs from the
\* requested name.
C2_VerifyAfterLoad ==
    VerifyAfterLoad =>
        /\ has_value(Loaded(attempts)) => verifyOutcome = "ok"
        /\ evalFile.current = requested => verifyOutcome = "ok"
        /\ evalFile.current /= requested => verifyOutcome = "fatal"

C2_Witness ==
    /\ VerifyAfterLoad
    /\ options[OptionName] = "custom.net"
    /\ requested = "custom.net"
    /\ Len(attempts) = 4
    /\ evalFile.current = currentEvalFileName
    /\ verifyOutcome = "fatal"

\* C3: when no parse attempt of a load_networks call yields a description,
\* the returned EvalFile equals the prior one in every field and the call
\* returns normally.
C3_FailedLoadKeepsState ==
    (AfterLoad /\ NoneParsed(attempts)) =>
        /\ evalFile = prior
        /\ verifyOutcome /= "fatal"

C3_Witness ==
    /\ AfterLoad
    /\ Len(attempts) = 4
    /\ NoneParsed(attempts)
    /\ prior.current = "custom.net"
    /\ requested = EvalFileDefaultName

\* C4: in the EvalFile returned by load_networks, current and netDescription
\* changed together: either current is the requested name and netDescription
\* is the description a parse of this call returned, or both are as before.
C4_UpdatedTogether ==
    AfterLoad =>
        \/ /\ has_value(Loaded(attempts))
           /\ evalFile.current = requested
           /\ evalFile.netDescription = Loaded(attempts)[1]
        \/ /\ evalFile.current = prior.current
           /\ evalFile.netDescription = prior.netDescription

C4_Witness ==
    /\ AfterLoad
    /\ has_value(Loaded(attempts))
    /\ evalFile.current = requested
    /\ evalFile.current /= prior.current
    /\ prior.current /= currentEvalFileName
    /\ evalFile.netDescription /= prior.netDescription

\* C9: the parse attempts of one load_networks call are in a fixed order:
\* the working directory before rootDirectory, on each path the zipped parse
\* before the raw one, the raw one only after a zipped parse of the same path
\* that gave no description, nothing after an attempt that gave a description,
\* and no attempt at all when the prior current name is the requested one.
C9_AttemptOrder ==
    AfterLoad =>
        /\ prior.current = requested => attempts = <<>>
        /\ \A i \in 1..Len(attempts) :
              /\ has_value(attempts[i].result) => i = Len(attempts)
              /\ attempts[i].dir = 1 => attempts[i].path = requested
              /\ attempts[i].kind = "raw" =>
                    /\ i > 1
                    /\ attempts[i-1].kind = "zip"
                    /\ attempts[i-1].dir = attempts[i].dir
                    /\ attempts[i-1].path = attempts[i].path
                    /\ ~has_value(attempts[i-1].result)
        /\ \A i, j \in 1..Len(attempts) :
              i < j =>
                 \/ attempts[i].dir < attempts[j].dir
                 \/ /\ attempts[i].dir = attempts[j].dir
                    /\ attempts[i].kind = "zip"
                    /\ attempts[j].kind = "raw"

C9_Witness ==
    /\ AfterLoad
    /\ Len(attempts) = 2
    /\ attempts[1].kind = "zip" /\ ~has_value(attempts[1].result)
    /\ attempts[2].kind = "raw" /\ has_value(attempts[2].result)
    /\ attempts[2].dir = 1
    /\ attempts[2].path = "custom.net"

\* C10: verify passes only if an earlier load_networks call successfully
\* parsed a file of the currently requested name, whose description is the
\* one held in evalFile; for every requested name, the sentinel included.
C10_VerifyImpliesLoaded ==
    (lastOp = "verify" /\ verifyOutcome = "ok") =>
        /\ has_value(lastParsed[user_eval_file(options, evalFile)])
        /\ <<evalFile.netDescription>> = lastParsed[user_eval_file(options, evalFile)]

----------------------------------------------------------------------------
(* Properties of the evaluator, checked under EvalSpec *)

Evaluated == epc = "evaluated"

Sign(x) == IF x < 0 THEN -1 ELSE IF x > 0 THEN 1 ELSE 0

\* C1: for a position not in check, the value evaluate returns lies strictly
\* between VALUE_MATED_IN_MAX_PLY and VALUE_MATE_IN_MAX_PLY.
C1_InsideMateBounds ==
    Evaluated => (VALUE_MATED_IN_MAX_PLY < value /\ value < VALUE_MATE_IN_MAX_PLY)

C1_Witness ==
    /\ Evaluated
    /\ ~pos.checkers
    /\ Damped(pos, optimism, nnueRaw, nnueComplexity) >= VALUE_MATE_IN_MAX_PLY
    /\ value = VALUE_MATE_IN_MAX_PLY - 1

\* C5: simple_eval from White's point of view is the negation of simple_eval
\* from Black's point of view.
C5_Antisymmetric ==
    epc = "simple" => simple[WHITE] = -simple[BLACK]

C5_Witness ==
    /\ epc = "simple"
    /\ simple[WHITE] > 0
    /\ pos.major[WHITE] > 0 /\ pos.major[BLACK] > 0
    /\ pos.pawn[WHITE] /= pos.pawn[BLACK]

\* C6: the psqtOnly hint passed to NNUE::evaluate is true when simpleEval is
\* above beta + 2500 or below alpha - 2500, and false when simpleEval lies
\* within [alpha - 2500, beta + 2500].
C6_PsqtOnlyHint ==
    Evaluated =>
        LET simpleEval == simple_eval(pos, pos.stm)
        IN  /\ (simpleEval > beta + 2500 \/ simpleEval < alpha - 2500) => psqtOnly
            /\ (alpha - 2500 <= simpleEval /\ simpleEval <= beta + 2500) => ~psqtOnly

C6_Witness ==
    /\ Evaluated
    /\ simple_eval(pos, pos.stm) > beta + 2500
    /\ psqtOnly

\* C7: with a shuffle counter of 293, evaluate returns 0 whatever the network
\* score, complexity, optimism, material and window are.
C7_FullyDamped ==
    (Evaluated /\ pos.rule60 = 293) => value = 0

C7_Witness ==
    /\ Evaluated
    /\ pos.rule60 = 293
    /\ nnueRaw = 20000 /\ optimism = 3000
    /\ value = 0

C8_Case ==
    /\ Evaluated
    /\ simple_eval(pos, pos.stm) = 0
    /\ optimism = 0 /\ alpha = -30000 /\ beta = 30000
    /\ pos.rule60 = 0

\* C8 as stated: in the equal-material example the sign of the returned value
\* is the sign of the raw network score, for every raw score and complexity.
C8_SignMatches ==
    C8_Case => Sign(value) = Sign(nnueRaw)

\* C8: in the equal-material example, when complexity + |raw score| is at most
\* 30087 the returned value never has the sign opposite to the raw network
\* score, and it is 0 when the raw score is 0.
C8_SignNotOpposite ==
    (C8_Case /\ nnueComplexity + Abs(nnueRaw) <= 30087) =>
        /\ value * nnueRaw >= 0
        /\ nnueRaw = 0 => value = 0

C8_Witness ==
    /\ C8_Case
    /\ nnueRaw = 20000 /\ nnueComplexity = 0
    /\ value > 0


====
